---- MODULE Spec2Model ----
(***************************************************************************)
(* Model of security/lockdown/lockdown.c: the kernel lockdown level, the   *)
(* raise rule lock_kernel_down, the "lockdown=" early parameter, the LSM   *)
(* hook lockdown_is_locked_down, the securityfs file "lockdown" (read and  *)
(* write) and the SysRq lift.                                              *)
(*                                                                         *)
(* C strings are sequences of one-character strings; NUL is the            *)
(* terminating byte, "\n" the newline.                                     *)
(***************************************************************************)
EXTENDS Integers, Sequences, FiniteSets, TLC

(* ---- enum lockdown_reason, in the order of the designated initialisers  *)
(* ---- of lockdown_reasons[] (lines 25-48)                                *)
LOCKDOWN_NONE == 0
LOCKDOWN_MODULE_SIGNATURE == 1
LOCKDOWN_DEV_MEM == 2
LOCKDOWN_EFI_TEST == 3
LOCKDOWN_KEXEC == 4
LOCKDOWN_HIBERNATION == 5
LOCKDOWN_PCI_ACCESS == 6
LOCKDOWN_IOPORT == 7
LOCKDOWN_MSR == 8
LOCKDOWN_ACPI_TABLES == 9
LOCKDOWN_PCMCIA_CIS == 10
LOCKDOWN_TIOCSSERIAL == 11
LOCKDOWN_MODULE_PARAMETERS == 12
LOCKDOWN_MMIOTRACE == 13
LOCKDOWN_DEBUGFS == 14
LOCKDOWN_INTEGRITY_MAX == 15
LOCKDOWN_KCORE == 16
LOCKDOWN_KPROBES == 17
LOCKDOWN_BPF_READ == 18
LOCKDOWN_PERF == 19
LOCKDOWN_TRACEFS == 20
LOCKDOWN_CONFIDENTIALITY_MAX == 21

(* ---- errno values returned by the handlers                              *)
EPERM == 1
ENOMEM == 12
EFAULT == 14
EINVAL == 22

(* ---- bytes                                                              *)
NUL == "NUL"
NL == "\n"

(* ---- bounds of the model                                                *)
\* reasons handed to the hook range over 0..MaxWhat (beyond the sentinel)
MaxWhat == 23
\* calls of lock_kernel_down each concurrent context makes
MaxCalls == 2

lockdown_reasons ==
  (LOCKDOWN_NONE :> <<"n","o","n","e">>)
  @@ (LOCKDOWN_MODULE_SIGNATURE :> <<"u","n","s","i","g","n","e","d"," ","m","o","d","u","l","e"," ","l","o","a","d","i","n","g">>)
  @@ (LOCKDOWN_DEV_MEM :> <<"/","d","e","v","/","m","e","m",",","k","m","e","m",",","p","o","r","t">>)
  @@ (LOCKDOWN_EFI_TEST :> <<"/","d","e","v","/","e","f","i","_","t","e","s","t"," ","a","c","c","e","s","s">>)
  @@ (LOCKDOWN_KEXEC :> <<"k","e","x","e","c"," ","o","f"," ","u","n","s","i","g","n","e","d"," ","i","m","a","g","e","s">>)
  @@ (LOCKDOWN_HIBERNATION :> <<"h","i","b","e","r","n","a","t","i","o","n">>)
  @@ (LOCKDOWN_PCI_ACCESS :> <<"d","i","r","e","c","t"," ","P","C","I"," ","a","c","c","e","s","s">>)
  @@ (LOCKDOWN_IOPORT :> <<"r","a","w"," ","i","o"," ","p","o","r","t"," ","a","c","c","e","s","s">>)
  @@ (LOCKDOWN_MSR :> <<"r","a","w"," ","M","S","R"," ","a","c","c","e","s","s">>)
  @@ (LOCKDOWN_ACPI_TABLES :> <<"m","o","d","i","f","y","i","n","g"," ","A","C","P","I"," ","t","a","b","l","e","s">>)
  @@ (LOCKDOWN_PCMCIA_CIS :> <<"d","i","r","e","c","t"," ","P","C","M","C","I","A"," ","C","I","S"," ","s","t","o","r","a","g","e">>)
  @@ (LOCKDOWN_TIOCSSERIAL :> <<"r","e","c","o","n","f","i","g","u","r","a","t","i","o","n"," ","o","f"," ","s","e","r","i","a","l"," ","p","o","r","t"," ","I","O">>)
  @@ (LOCKDOWN_MODULE_PARAMETERS :> <<"u","n","s","a","f","e"," ","m","o","d","u","l","e"," ","p","a","r","a","m","e","t","e","r","s">>)
  @@ (LOCKDOWN_MMIOTRACE :> <<"u","n","s","a","f","e"," ","m","m","i","o">>)
  @@ (LOCKDOWN_DEBUGFS :> <<"d","e","b","u","g","f","s"," ","a","c","c","e","s","s">>)
  @@ (LOCKDOWN_INTEGRITY_MAX :> <<"i","n","t","e","g","r","i","t","y">>)
  @@ (LOCKDOWN_KCORE :> <<"/","p","r","o","c","/","k","c","o","r","e"," ","a","c","c","e","s","s">>)
  @@ (LOCKDOWN_KPROBES :> <<"u","s","e"," ","o","f"," ","k","p","r","o","b","e","s">>)
  @@ (LOCKDOWN_BPF_READ :> <<"u","s","e"," ","o","f"," ","b","p","f"," ","t","o"," ","r","e","a","d"," ","k","e","r","n","e","l"," ","R","A","M">>)
  @@ (LOCKDOWN_PERF :> <<"u","n","s","a","f","e"," ","u","s","e"," ","o","f"," ","p","e","r","f">>)
  @@ (LOCKDOWN_TRACEFS :> <<"u","s","e"," ","o","f"," ","t","r","a","c","e","f","s">>)
  @@ (LOCKDOWN_CONFIDENTIALITY_MAX :> <<"c","o","n","f","i","d","e","n","t","i","a","l","i","t","y">>)

lockdown_levels ==
  <<LOCKDOWN_NONE, LOCKDOWN_INTEGRITY_MAX, LOCKDOWN_CONFIDENTIALITY_MAX>>

(* ---- C string helpers ------------------------------------------------- *)
\* number of bytes before the first NUL (or the end of the array)
strlen(s) ==
  IF \E i \in 1..Len(s) : s[i] = NUL
  THEN (CHOOSE i \in 1..Len(s) :
          s[i] = NUL /\ \A j \in 1..(i - 1) : s[j] # NUL) - 1
  ELSE Len(s)

\* the string a char array holds
CStr(s) == SubSeq(s, 1, strlen(s))

\* 0 iff the two C strings are equal
strcmp(a, b) == IF CStr(a) = CStr(b) THEN 0 ELSE 1

\* copy of the n user bytes with a terminating NUL appended
memdup_user_nul(buf, n) == SubSeq(buf, 1, n) \o <<NUL>>

(* ---- words the callers hand in ---------------------------------------- *)
StrNone == <<"n","o","n","e">>
StrIntegrity == <<"i","n","t","e","g","r","i","t","y">>
StrConfidentiality == <<"c","o","n","f","i","d","e","n","t","i","a","l","i","t","y">>
StrBogus == <<"b","o","g","u","s">>

\* payload = word followed by tail
Words ==
  { <<>>, StrNone, StrIntegrity, StrConfidentiality, StrBogus,
    <<" ">> \o StrIntegrity, <<"I","n","t","e","g","r","i","t","y">> }
Tails == { <<>>, <<NL>>, <<NL, NL>>, <<NUL, "x">> }
Payloads == { w \o t : w \in Words, t \in Tails }

\* a write: the user bytes and what memdup_user_nul hands back, the copy
\* (0) or an ERR_PTR
Writes ==
  { <<buf, 0>> : buf \in Payloads }
  \cup { <<StrConfidentiality \o <<NL>>, e>> : e \in {-EFAULT, -ENOMEM} }

\* the "lockdown" word of the kernel command line: absent, without a
\* value (the handler gets a NULL pointer), or with a value
ParamTokens == {StrIntegrity, StrConfidentiality, StrNone, StrBogus}
Cmdlines ==
  { [present |-> FALSE, null |-> FALSE, level |-> <<>>],
    [present |-> TRUE, null |-> TRUE, level |-> <<>>] }
  \cup { [present |-> TRUE, null |-> FALSE, level |-> t] : t \in ParamTokens }

\* the build: CONFIG_ALLOW_LOCKDOWN_LIFT_BY_SYSRQ,
\* CONFIG_LOCK_DOWN_KERNEL_FORCE_*, CONFIG_SECURITY_LOCKDOWN_LSM_EARLY
Configs ==
  [ lift : BOOLEAN,
    force : {"none", "integrity", "confidentiality"},
    early : BOOLEAN ]

VARIABLES
  kernel_locked_down,  \* the lockdown level
  config,              \* the build configuration
  cmdline,             \* the "lockdown" word of the command line
  initcalls,           \* the init functions of the file that have run
  lockdown_file,       \* securityfs file "lockdown" exists
  sysrq_registered,    \* lockdown_lift_sysrq_op is registered
  op,                  \* the last call: its arguments, result and output
  prev,                \* summary of the call before it
  lifted,              \* the SysRq key has been pressed since start-up
  ctx,                 \* concurrent callers of lock_kernel_down
  committed,           \* highest level a concurrent raise returned 0 for
  observed,            \* what the last concurrent reader saw
  history              \* the values the level took under concurrent raises

ConcVars == << ctx, committed, observed, history >>

vars ==
  << kernel_locked_down, config, cmdline, initcalls, lockdown_file,
     sysrq_registered, op, prev, lifted, ConcVars >>

(* ---- the record of a call --------------------------------------------- *)
Call(name, pre, ret) ==
  [ name |-> name, pre |-> pre, ret |-> ret, payload |-> <<>>, what |-> 0,
    copy |-> 0, notices |-> <<>>, warn |-> FALSE, out |-> <<>>,
    raises |-> <<>> ]

\* what the call before the last one did to the level: a write that raised
\* it, a key press that lifted it, or nothing
Summary(o, post) ==
  IF o.name \in {"lockdown_write", "sysrq_handle_lockdown_lift"}
     /\ post # o.pre
  THEN [name |-> o.name, pre |-> o.pre, payload |-> o.payload]
  ELSE [name |-> "none", pre |-> LOCKDOWN_NONE, payload |-> <<>>]

(* ---- lock_kernel_down ------------------------------------------------- *)
\* the test of line 59
AtOrAbove(cur, level) == cur >= level

\* faulty variant: the level is stored without the test of line 59
lock_kernel_down_untested(cur, where, level) ==
  [ret |-> 0, lvl |-> level,
   notices |-> << [msg |-> "Kernel is locked down", where |-> where,
                   what |-> level] >>]

\* faulty variant: the test of line 59 is > where the code has >=
lock_kernel_down_strict(cur, where, level) ==
  IF cur > level
  THEN [ret |-> -EPERM, lvl |-> cur, notices |-> <<>>]
  ELSE [ret |-> 0, lvl |-> level,
        notices |-> << [msg |-> "Kernel is locked down", where |-> where,
                        what |-> level] >>]

\* faulty variant: the notice is printed before the test of line 59
lock_kernel_down_noisy(cur, where, level) ==
  [ret |-> IF cur >= level THEN -EPERM ELSE 0,
   lvl |-> IF cur >= level THEN cur ELSE level,
   notices |-> << [msg |-> "Kernel is locked down", where |-> where,
                   what |-> level] >>]

\* result of the whole function: return value, new level, notices
lock_kernel_down(cur, where, level) ==
  IF AtOrAbove(cur, level)
  THEN [ret |-> -EPERM, lvl |-> cur, notices |-> <<>>]
  ELSE [ret |-> 0, lvl |-> level,
        notices |-> << [msg |-> "Kernel is locked down", where |-> where,
                        what |-> level] >>]

\* a caller's call of lock_kernel_down, with what it was asked and what it
\* did
Raise(cur, where, level) ==
  LET r == lock_kernel_down(cur, where, level) IN
  [ ret |-> r.ret, lvl |-> r.lvl, notices |-> r.notices,
    raises |-> << [level |-> level, pre |-> cur, ret |-> r.ret,
                   post |-> r.lvl] >> ]

NoRaise(cur, ret) ==
  [ret |-> ret, lvl |-> cur, notices |-> <<>>, raises |-> <<>>]

Notice(msg, where, what) == [msg |-> msg, where |-> where, what |-> what]

(* ---- lockdown_param --------------------------------------------------- *)
\* faulty variant: a word that is not recognised is let through with 0
lockdown_param_result_lenient(cur, null, level) ==
  IF null
  THEN NoRaise(cur, -EINVAL)
  ELSE IF strcmp(level, StrIntegrity) = 0
  THEN [Raise(cur, "command line", LOCKDOWN_INTEGRITY_MAX) EXCEPT !.ret = 0]
  ELSE IF strcmp(level, StrConfidentiality) = 0
  THEN [Raise(cur, "command line", LOCKDOWN_CONFIDENTIALITY_MAX)
          EXCEPT !.ret = 0]
  ELSE NoRaise(cur, 0)

\* level is the value of the "lockdown" word; null when it has none
lockdown_param_result(cur, null, level) ==
  IF null
  THEN NoRaise(cur, -EINVAL)
  ELSE IF strcmp(level, StrIntegrity) = 0
  THEN [Raise(cur, "command line", LOCKDOWN_INTEGRITY_MAX) EXCEPT !.ret = 0]
  ELSE IF strcmp(level, StrConfidentiality) = 0
  THEN [Raise(cur, "command line", LOCKDOWN_CONFIDENTIALITY_MAX)
          EXCEPT !.ret = 0]
  ELSE NoRaise(cur, -EINVAL)

(* ---- lockdown_is_locked_down ------------------------------------------ *)
\* faulty variant: the test of line 95 is > where the code has >=
lockdown_is_locked_down_result_strict(cur, what) ==
  IF what >= LOCKDOWN_CONFIDENTIALITY_MAX
  THEN [ret |-> -EPERM, warn |-> TRUE, notices |-> <<>>]
  ELSE IF cur > what
  THEN [ret |-> -EPERM, warn |-> FALSE,
        notices |-> << [msg |-> "is restricted", where |-> "",
                        what |-> what] >>]
  ELSE [ret |-> 0, warn |-> FALSE, notices |-> <<>>]

\* faulty variant: the test of line 91 lets the sentinel itself through
lockdown_is_locked_down_result_sentinel(cur, what) ==
  IF what > LOCKDOWN_CONFIDENTIALITY_MAX
  THEN [ret |-> -EPERM, warn |-> TRUE, notices |-> <<>>]
  ELSE IF cur >= what
  THEN [ret |-> -EPERM, warn |-> FALSE,
        notices |-> << [msg |-> "is restricted", where |-> "",
                        what |-> what] >>]
  ELSE [ret |-> 0, warn |-> FALSE, notices |-> <<>>]

lockdown_is_locked_down_result(cur, what) ==
  IF what >= LOCKDOWN_CONFIDENTIALITY_MAX
  THEN [ret |-> -EPERM, warn |-> TRUE, notices |-> <<>>]
  ELSE IF cur >= what
  THEN [ret |-> -EPERM, warn |-> FALSE,
        notices |-> IF what \in DOMAIN lockdown_reasons
                    THEN << Notice("is restricted", "", what) >>
                    ELSE <<>>]
  ELSE [ret |-> 0, warn |-> FALSE, notices |-> <<>>]

(* ---- lockdown_lsm_init ------------------------------------------------ *)
\* faulty variant: the forced level is stored, not raised to
lockdown_lsm_init_result_assign(cur, force) ==
  IF force = "integrity"
  THEN [Raise(LOCKDOWN_NONE, "Kernel configuration", LOCKDOWN_INTEGRITY_MAX)
          EXCEPT !.ret = 0]
  ELSE IF force = "confidentiality"
  THEN [Raise(LOCKDOWN_NONE, "Kernel configuration",
              LOCKDOWN_CONFIDENTIALITY_MAX) EXCEPT !.ret = 0]
  ELSE NoRaise(cur, 0)

lockdown_lsm_init_result(cur, force) ==
  IF force = "integrity"
  THEN [Raise(cur, "Kernel configuration", LOCKDOWN_INTEGRITY_MAX)
          EXCEPT !.ret = 0]
  ELSE IF force = "confidentiality"
  THEN [Raise(cur, "Kernel configuration", LOCKDOWN_CONFIDENTIALITY_MAX)
          EXCEPT !.ret = 0]
  ELSE NoRaise(cur, 0)

(* ---- lockdown_read ---------------------------------------------------- *)
\* the two sprintf formats of lines 134 and 136
FmtCurrent(label) == <<"[">> \o label \o <<"]", " ">>
FmtOther(label) == label \o <<" ">>

\* the loop of lines 127-138 from index i; temp holds the bytes written
RECURSIVE ReadScan(_, _, _)
ReadScan(cur, i, temp) ==
  IF i > Len(lockdown_levels) THEN temp
  ELSE LET level == lockdown_levels[i] IN
       IF level \in DOMAIN lockdown_reasons
       THEN ReadScan(cur, i + 1,
                     temp \o (IF cur = level
                              THEN FmtCurrent(lockdown_reasons[level])
                              ELSE FmtOther(lockdown_reasons[level])))
       ELSE ReadScan(cur, i + 1, temp)

\* faulty variant: the last space is not turned into a newline
lockdown_read_result_space(cur) ==
  LET temp == ReadScan(cur, 1, <<>>) \o <<NUL>>
  IN  SubSeq(temp, 1, strlen(temp))

\* the bytes a read of the whole file (*ppos = 0, count >= sizeof temp)
\* copies out: temp up to its NUL, the last space turned into a newline
lockdown_read_result(cur) ==
  LET t == ReadScan(cur, 1, <<>>)
      offset == Len(t)
      temp == (IF offset > 0 THEN [t EXCEPT ![offset] = NL] ELSE t)
              \o <<NUL>>
  IN  SubSeq(temp, 1, strlen(temp))

(* ---- lockdown_write --------------------------------------------------- *)
\* faulty variant: no newline is dropped
StripNewline_kept(state) == state

\* lines 157-161: drop one trailing newline
StripNewline(state) ==
  LET len == strlen(state) IN
  IF len > 0 /\ state[len] = NL THEN [state EXCEPT ![len] = NUL] ELSE state

\* the loop of lines 163-169 from index i; acc carries err and the level
RECURSIVE WriteScan(_, _, _)
WriteScan(state, i, acc) ==
  IF i > Len(lockdown_levels) THEN acc
  ELSE LET level == lockdown_levels[i] IN
       IF level \in DOMAIN lockdown_reasons
          /\ strcmp(state, lockdown_reasons[level]) = 0
       THEN LET r == Raise(acc.lvl, "securityfs", level) IN
            WriteScan(state, i + 1,
                      [ret |-> r.ret, lvl |-> r.lvl,
                       notices |-> acc.notices \o r.notices,
                       raises |-> acc.raises \o r.raises])
       ELSE WriteScan(state, i + 1, acc)

\* faulty variant: err is returned as it is, 0 instead of n
lockdown_write_result_err(cur, buf, n, copy) ==
  IF copy # 0
  THEN NoRaise(cur, copy)
  ELSE WriteScan(StripNewline(memdup_user_nul(buf, n)), 1,
                 NoRaise(cur, -EINVAL))

\* faulty variant: the label is stored where line 168 raises to it
lockdown_write_result_reason(cur, buf, n, copy) ==
  IF copy # 0
  THEN NoRaise(cur, copy)
  ELSE LET state == StripNewline(memdup_user_nul(buf, n)) IN
       IF strcmp(state, StrIntegrity) = 0
       THEN [Raise(cur, "securityfs", LOCKDOWN_DEBUGFS) EXCEPT !.ret = n]
       ELSE NoRaise(cur, -EINVAL)

\* buf holds the n bytes of the payload; copy is 0 or the ERR_PTR value
lockdown_write_result(cur, buf, n, copy) ==
  IF copy # 0
  THEN NoRaise(cur, copy)
  ELSE LET state == StripNewline(memdup_user_nul(buf, n))
           r == WriteScan(state, 1, NoRaise(cur, -EINVAL))
       IN  [r EXCEPT !.ret = IF r.ret # 0 THEN r.ret ELSE n]

(* ---- the lift --------------------------------------------------------- *)
\* faulty variant: the lift stops at the integrity level
lift_kernel_lockdown_integrity ==
  [lvl |-> LOCKDOWN_INTEGRITY_MAX,
   notices |-> << [msg |-> "Lifting lockdown", where |-> "", what |-> 0] >>]

lift_kernel_lockdown ==
  [lvl |-> LOCKDOWN_NONE, notices |-> << Notice("Lifting lockdown", "", 0) >>]

\* faulty variant: the lift runs without the test of line 217
sysrq_handle_lockdown_lift_result_unguarded(cur) ==
  [lvl |-> LOCKDOWN_NONE,
   notices |-> << [msg |-> "Lifting lockdown", where |-> "", what |-> 0] >>]

sysrq_handle_lockdown_lift_result(cur) ==
  IF cur # LOCKDOWN_NONE
  THEN lift_kernel_lockdown
  ELSE [lvl |-> cur, notices |-> <<>>]

\* faulty variant: the key is registered whatever the level
lockdown_lift_sysrq_result_always(cur) == TRUE

\* line 230: the key is registered only when the kernel is locked down
lockdown_lift_sysrq_result(cur) == cur # LOCKDOWN_NONE

(* ======================================================================= *)
(* The state machine: start-up and the calls made one at a time            *)
(* ======================================================================= *)
Contexts == {1, 2}

IdleCtx == [pc |-> "idle", level |-> LOCKDOWN_NONE, ret |-> 0, calls |-> 0]

Init ==
  /\ kernel_locked_down = LOCKDOWN_NONE
  /\ config \in Configs
  /\ cmdline \in Cmdlines
  /\ initcalls = {}
  /\ lockdown_file = FALSE
  /\ sysrq_registered = FALSE
  /\ op = Call("start", LOCKDOWN_NONE, 0)
  /\ prev = Summary(Call("start", LOCKDOWN_NONE, 0), LOCKDOWN_NONE)
  /\ lifted = FALSE
  /\ ctx = [c \in Contexts |-> IdleCtx]
  /\ committed = LOCKDOWN_NONE
  /\ observed = [lvl |-> LOCKDOWN_NONE, floor |-> LOCKDOWN_NONE, reads |-> 0]
  /\ history = <<LOCKDOWN_NONE>>

\* the call o has been made
Record(o) ==
  /\ op' = o
  /\ prev' = Summary(op, kernel_locked_down)

\* faulty variant: nothing waits for the early parameter
ParamPassed_always == TRUE

\* the early parameter has been handled (or there is none to handle)
ParamPassed == ~cmdline.present \/ "lockdown_param" \in initcalls

\* early_param("lockdown", lockdown_param): parse_early_param() runs after
\* early_security_init() and before security_init()
lockdown_param ==
  /\ cmdline.present
  /\ "lockdown_param" \notin initcalls
  /\ config.early => "lockdown_lsm_init" \in initcalls
  /\ \E r \in {lockdown_param_result(kernel_locked_down, cmdline.null,
                                      cmdline.level)} :
         /\ kernel_locked_down' = r.lvl
         /\ Record([Call("lockdown_param", kernel_locked_down, r.ret)
                      EXCEPT !.payload = cmdline.level,
                             !.notices = r.notices, !.raises = r.raises])
  /\ initcalls' = initcalls \cup {"lockdown_param"}
  /\ UNCHANGED << config, cmdline, lockdown_file, sysrq_registered, lifted, ConcVars >>

\* DEFINE_EARLY_LSM / DEFINE_LSM: the init of the LSM
lockdown_lsm_init ==
  /\ "lockdown_lsm_init" \notin initcalls
  /\ ~config.early => ParamPassed
  /\ \E r \in {lockdown_lsm_init_result(kernel_locked_down, config.force)} :
         /\ kernel_locked_down' = r.lvl
         /\ Record([Call("lockdown_lsm_init", kernel_locked_down, r.ret)
                      EXCEPT !.notices = r.notices, !.raises = r.raises])
  /\ initcalls' = initcalls \cup {"lockdown_lsm_init"}
  /\ UNCHANGED << config, cmdline, lockdown_file, sysrq_registered, lifted, ConcVars >>

\* core_initcall: securityfs_create_file hands back the dentry or an error
lockdown_secfs_init ==
  /\ "lockdown_secfs_init" \notin initcalls
  /\ "lockdown_lsm_init" \in initcalls
  /\ ParamPassed
  /\ \E err \in {0, -ENOMEM} :
       /\ lockdown_file' = (err = 0)
       /\ Record(Call("lockdown_secfs_init", kernel_locked_down, err))
  /\ initcalls' = initcalls \cup {"lockdown_secfs_init"}
  /\ UNCHANGED << kernel_locked_down, config, cmdline, sysrq_registered, lifted, ConcVars >>

\* late_initcall, compiled in with CONFIG_ALLOW_LOCKDOWN_LIFT_BY_SYSRQ
lockdown_lift_sysrq ==
  /\ config.lift
  /\ "lockdown_lift_sysrq" \notin initcalls
  /\ "lockdown_secfs_init" \in initcalls
  /\ sysrq_registered' = lockdown_lift_sysrq_result(kernel_locked_down)
  /\ Record(Call("lockdown_lift_sysrq", kernel_locked_down, 0))
  /\ initcalls' = initcalls \cup {"lockdown_lift_sysrq"}
  /\ UNCHANGED << kernel_locked_down, config, cmdline, lockdown_file, lifted, ConcVars >>

\* the LSM hook locked_down, reachable once security_add_hooks has run
lockdown_is_locked_down ==
  /\ "lockdown_lsm_init" \in initcalls
  /\ \E what \in 0..MaxWhat :
       \E r \in {lockdown_is_locked_down_result(kernel_locked_down, what)} :
           Record([Call("lockdown_is_locked_down", kernel_locked_down, r.ret)
                     EXCEPT !.what = what, !.warn = r.warn,
                            !.notices = r.notices])
  /\ UNCHANGED << kernel_locked_down, config, cmdline, initcalls,
                  lockdown_file, sysrq_registered, lifted, ConcVars >>

\* faulty variant: line 133 has = where the code has ==, so the read
\* stores each level in turn
lockdown_read_assign ==
  /\ lockdown_file
  /\ kernel_locked_down' = LOCKDOWN_CONFIDENTIALITY_MAX
  /\ \E out \in {lockdown_read_result(LOCKDOWN_CONFIDENTIALITY_MAX)} :
         Record([Call("lockdown_read", kernel_locked_down, Len(out))
                   EXCEPT !.out = out])
  /\ UNCHANGED << config, cmdline, initcalls, lockdown_file,
                  sysrq_registered, lifted, ConcVars >>

\* .read of the securityfs file
lockdown_read ==
  /\ lockdown_file
  /\ \E out \in {lockdown_read_result(kernel_locked_down)} :
         Record([Call("lockdown_read", kernel_locked_down, Len(out))
                   EXCEPT !.out = out])
  /\ UNCHANGED << kernel_locked_down, config, cmdline, initcalls,
                  lockdown_file, sysrq_registered, lifted, ConcVars >>

\* .write of the securityfs file
lockdown_write ==
  /\ lockdown_file
  /\ \E w \in Writes :
       \E r \in {lockdown_write_result(kernel_locked_down, w[1], Len(w[1]),
                                       w[2])} :
           /\ kernel_locked_down' = r.lvl
           /\ Record([Call("lockdown_write", kernel_locked_down, r.ret)
                        EXCEPT !.payload = w[1], !.copy = w[2],
                               !.notices = r.notices, !.raises = r.raises])
  /\ UNCHANGED << config, cmdline, initcalls, lockdown_file,
                  sysrq_registered, lifted, ConcVars >>

\* the SysRq key is pressed
sysrq_handle_lockdown_lift ==
  /\ sysrq_registered
  /\ \E r \in {sysrq_handle_lockdown_lift_result(kernel_locked_down)} :
         /\ kernel_locked_down' = r.lvl
         /\ Record([Call("sysrq_handle_lockdown_lift", kernel_locked_down, 0)
                      EXCEPT !.notices = r.notices])
  /\ lifted' = TRUE
  /\ UNCHANGED << config, cmdline, initcalls, lockdown_file,
                  sysrq_registered, ConcVars >>

Next ==
  \/ lockdown_param
  \/ lockdown_lsm_init
  \/ lockdown_secfs_init
  \/ lockdown_lift_sysrq
  \/ lockdown_is_locked_down
  \/ lockdown_read
  \/ lockdown_write
  \/ sysrq_handle_lockdown_lift

Spec == Init /\ [][Next]_vars

(* ======================================================================= *)
(* Concurrent callers: lock_kernel_down is a test (line 59) followed by a  *)
(* store (line 62), with no lock and no atomic around them; two writers of *)
(* the securityfs file run it at once while a third context reads.         *)
(* ======================================================================= *)
SeqVars ==
  << config, cmdline, initcalls, lockdown_file, sysrq_registered, op, prev,
     lifted >>

Max(a, b) == IF a >= b THEN a ELSE b
Min(a, b) == IF a <= b THEN a ELSE b

\* the system after start-up: nothing forced, no "lockdown" word, no lift
InitConc ==
  /\ kernel_locked_down = LOCKDOWN_NONE
  /\ config = [lift |-> FALSE, force |-> "none", early |-> FALSE]
  /\ cmdline = [present |-> FALSE, null |-> FALSE, level |-> <<>>]
  /\ initcalls = {"lockdown_lsm_init", "lockdown_secfs_init"}
  /\ lockdown_file = TRUE
  /\ sysrq_registered = FALSE
  /\ op = Call("lockdown_secfs_init", LOCKDOWN_NONE, 0)
  /\ prev = Summary(Call("start", LOCKDOWN_NONE, 0), LOCKDOWN_NONE)
  /\ lifted = FALSE
  /\ ctx = [c \in Contexts |-> IdleCtx]
  /\ committed = LOCKDOWN_NONE
  /\ observed = [lvl |-> LOCKDOWN_NONE, floor |-> LOCKDOWN_NONE, reads |-> 0]
  /\ history = <<LOCKDOWN_NONE>>

\* lockdown_write matched a label and calls lock_kernel_down (line 168)
Enter(c) ==
  /\ lockdown_file
  /\ ctx[c].pc = "idle"
  /\ ctx[c].calls < MaxCalls
  /\ \E i \in 1..Len(lockdown_levels) :
       ctx' = [ctx EXCEPT ![c] = [pc |-> "test", level |-> lockdown_levels[i],
                                  ret |-> 0, calls |-> @.calls + 1]]
  /\ UNCHANGED << kernel_locked_down, SeqVars, committed, observed, history >>

\* line 59: if (kernel_locked_down >= level) return -EPERM;
Test(c) ==
  /\ ctx[c].pc = "test"
  /\ ctx' = [ctx EXCEPT ![c] =
               IF AtOrAbove(kernel_locked_down, @.level)
               THEN [@ EXCEPT !.pc = "ret", !.ret = -EPERM]
               ELSE [@ EXCEPT !.pc = "store"]]
  /\ UNCHANGED << kernel_locked_down, SeqVars, committed, observed, history >>

\* lines 62-65: kernel_locked_down = level; pr_notice(...); return 0;
Store(c) ==
  /\ ctx[c].pc = "store"
  /\ kernel_locked_down' = ctx[c].level
  /\ history' = IF ctx[c].level = kernel_locked_down THEN history
                ELSE Append(history, ctx[c].level)
  /\ ctx' = [ctx EXCEPT ![c] = [@ EXCEPT !.pc = "ret", !.ret = 0]]
  /\ UNCHANGED << SeqVars, committed, observed >>

\* the call is back in its caller
Return(c) ==
  /\ ctx[c].pc = "ret"
  /\ committed' = IF ctx[c].ret = 0 THEN Max(committed, ctx[c].level)
                  ELSE committed
  /\ ctx' = [ctx EXCEPT ![c] = [@ EXCEPT !.pc = "idle"]]
  /\ UNCHANGED << kernel_locked_down, SeqVars, observed, history >>

\* a third context runs the hook or reads the file: it loads
\* kernel_locked_down (lines 95, 133)
Reader ==
  /\ observed' = [lvl |-> kernel_locked_down, floor |-> committed,
                  reads |-> 1]
  /\ UNCHANGED << kernel_locked_down, SeqVars, ctx, committed, history >>

NextConc ==
  \/ \E c \in Contexts : Enter(c)
  \/ \E c \in Contexts : Test(c)
  \/ \E c \in Contexts : Store(c)
  \/ \E c \in Contexts : Return(c)
  \/ Reader

SpecConc == InitConc /\ [][NextConc]_vars

(* ======================================================================= *)
(* Properties                                                              *)
(* ======================================================================= *)
\* the calls that ask for a raise
RaiseCalls == {"lockdown_param", "lockdown_lsm_init", "lockdown_write"}

\* C1 - Monotonicity: a raise request (early parameter, forced
\* configuration, write of the securityfs file), made one call at a time,
\* never leaves the level lower than it found it.
C1_Monotonic ==
  [][op'.name \in RaiseCalls => kernel_locked_down' >= kernel_locked_down]_vars

\* a write raised the level from integrity to confidentiality
C1_Witness ==
  /\ op.name = "lockdown_write"
  /\ op.pre = LOCKDOWN_INTEGRITY_MAX
  /\ op.ret > 0
  /\ kernel_locked_down = LOCKDOWN_CONFIDENTIALITY_MAX

\* C2 - Transition rule: every call lock_kernel_down(where, L) returns 0 and
\* sets the level to exactly L when the level was below L, and returns
\* -EPERM and leaves the level alone when it was at or above L; the level
\* the callers leave behind is the one their last call set.
C2_TransitionRule ==
  /\ \A i \in 1..Len(op.raises) :
       LET k == op.raises[i] IN
       /\ k.pre < k.level => k.ret = 0 /\ k.post = k.level
       /\ k.pre >= k.level => k.ret = -EPERM /\ k.post = k.pre
       /\ k.ret = 0 <=> k.pre < k.level
  /\ op.raises # <<>> =>
       /\ op.raises[1].pre = op.pre
       /\ op.raises[Len(op.raises)].post = kernel_locked_down

\* a raise to the level the kernel is already at has failed
C2_Witness ==
  /\ op.name = "lockdown_write"
  /\ Len(op.raises) = 1
  /\ op.raises[1].level = LOCKDOWN_INTEGRITY_MAX
  /\ op.raises[1].pre = LOCKDOWN_INTEGRITY_MAX
  /\ op.raises[1].ret = -EPERM
  /\ kernel_locked_down = LOCKDOWN_INTEGRITY_MAX

\* the two concurrent contexts have each made one call, for two different
\* levels, starting from LOCKDOWN_NONE
TwoRaises ==
  /\ \A c \in Contexts : ctx[c].calls = 1
  /\ ctx[1].level # ctx[2].level

LevelA == Min(ctx[1].level, ctx[2].level)
LevelB == Max(ctx[1].level, ctx[2].level)

\* C3 - Concurrent raises: two contexts raise to A and to B (A < B) at once
\* from LOCKDOWN_NONE; whatever the interleaving of their tests and stores,
\* the level goes None -> A -> B or None -> B (never None -> B -> A) and
\* ends at exactly B.
C3_ConcurrentRaises ==
  TwoRaises =>
    /\ history \in { <<LOCKDOWN_NONE>>, <<LOCKDOWN_NONE, LevelA>>,
                      <<LOCKDOWN_NONE, LevelB>>,
                      <<LOCKDOWN_NONE, LevelA, LevelB>> }
    /\ (\A c \in Contexts : ctx[c].pc = "idle") =>
         kernel_locked_down = LevelB

\* C4 - Reader consistency: a reader that starts after a raise to L has
\* returned 0 never sees a level below L.
C4_ReaderConsistency ==
  observed.reads > 0 => observed.lvl >= observed.floor

\* C5 - Authorization correctness: for a reason K below the sentinel the
\* hook returns -EPERM iff the level is at or above K, and 0 otherwise.
C5_AuthorizationCorrect ==
  (op.name = "lockdown_is_locked_down"
   /\ op.what < LOCKDOWN_CONFIDENTIALITY_MAX) =>
    /\ op.ret = -EPERM <=> kernel_locked_down >= op.what
    /\ op.ret = 0 <=> kernel_locked_down < op.what

\* at level integrity the reason integrity itself is restricted
C5_Witness ==
  /\ op.name = "lockdown_is_locked_down"
  /\ op.what = LOCKDOWN_INTEGRITY_MAX
  /\ kernel_locked_down = LOCKDOWN_INTEGRITY_MAX
  /\ op.ret = -EPERM

\* C6 - Fail closed on an invalid reason: a reason at or beyond the
\* sentinel raises the warning, is reported restricted and leaves the level
\* alone; no reason below the sentinel raises the warning.
C6_FailClosed ==
  op.name = "lockdown_is_locked_down" =>
    /\ op.warn <=> op.what >= LOCKDOWN_CONFIDENTIALITY_MAX
    /\ op.what >= LOCKDOWN_CONFIDENTIALITY_MAX =>
         /\ op.ret = -EPERM
         /\ op.notices = <<>>
         /\ kernel_locked_down = op.pre

\* the sentinel itself was handed in while the kernel was not locked down
C6_Witness ==
  /\ op.name = "lockdown_is_locked_down"
  /\ op.what = LOCKDOWN_CONFIDENTIALITY_MAX
  /\ kernel_locked_down = LOCKDOWN_NONE
  /\ op.warn
  /\ op.ret = -EPERM

(* ---- the text of the securityfs file ---------------------------------- *)
\* a payload without its one trailing newline, if it has one
StripOne(p) ==
  IF Len(p) > 0 /\ p[Len(p)] = NL THEN SubSeq(p, 1, Len(p) - 1) ELSE p

\* the names of the labeled levels and the levels they name
LevelNames == {StrNone, StrIntegrity, StrConfidentiality}

LevelNamed(s) ==
  IF s = StrNone THEN LOCKDOWN_NONE
  ELSE IF s = StrIntegrity THEN LOCKDOWN_INTEGRITY_MAX
  ELSE LOCKDOWN_CONFIDENTIALITY_MAX

\* C7 - Admin write error taxonomy: a payload that was copied in and, one
\* trailing newline stripped, is no level name gets -EINVAL; one that names
\* a level not above the current one gets -EPERM; the level is unchanged in
\* both cases and the two codes differ.
C7_WriteErrors ==
  (op.name = "lockdown_write" /\ op.copy = 0) =>
    LET s == StripOne(op.payload) IN
    /\ s \notin LevelNames =>
         op.ret = -EINVAL /\ kernel_locked_down = op.pre
    /\ (s \in LevelNames /\ LevelNamed(s) <= op.pre) =>
         op.ret = -EPERM /\ kernel_locked_down = op.pre
    /\ EINVAL # EPERM

\* "[none] integrity confidentiality\n" and the two other lines
TxtNone ==
  <<"[","n","o","n","e","]"," ","i","n","t","e","g","r","i","t","y"," ","c","o","n","f","i","d","e","n","t","i","a","l","i","t","y","\n">>
TxtIntegrity ==
  <<"n","o","n","e"," ","[","i","n","t","e","g","r","i","t","y","]"," ","c","o","n","f","i","d","e","n","t","i","a","l","i","t","y","\n">>
TxtConfidentiality ==
  <<"n","o","n","e"," ","i","n","t","e","g","r","i","t","y"," ","[","c","o","n","f","i","d","e","n","t","i","a","l","i","t","y","]","\n">>

ExpectedText(level) ==
  IF level = LOCKDOWN_NONE THEN TxtNone
  ELSE IF level = LOCKDOWN_INTEGRITY_MAX THEN TxtIntegrity
  ELSE IF level = LOCKDOWN_CONFIDENTIALITY_MAX THEN TxtConfidentiality
  ELSE <<>>

Count(t, ch) == Cardinality({i \in 1..Len(t) : t[i] = ch})

\* the text t has the word s in brackets
Brackets(t, s) ==
  \E i \in 1..Len(t) :
    /\ i + Len(s) + 1 <= Len(t)
    /\ SubSeq(t, i, i + Len(s) + 1) = <<"[">> \o s \o <<"]">>

\* C8 - Admin read format: a read gives the three labels in the order none,
\* integrity, confidentiality, separated by one space, ended by a newline,
\* with the current level, and only it, in brackets.
C8_ReadFormat ==
  op.name = "lockdown_read" =>
    /\ op.out = ExpectedText(kernel_locked_down)
    /\ op.ret = Len(op.out)
    /\ Count(op.out, "[") = 1
    /\ Count(op.out, "]") = 1
    /\ kernel_locked_down = op.pre

\* the file was read at level integrity
C8_Witness ==
  /\ op.name = "lockdown_read"
  /\ kernel_locked_down = LOCKDOWN_INTEGRITY_MAX
  /\ op.out = TxtIntegrity

\* C9 - Write/read round trip: a write of a level name X, with or without
\* one trailing newline, that succeeds returns the number of bytes written,
\* and the read right after it shows X, and only X, in brackets.
C9_RoundTrip ==
  /\ (op.name = "lockdown_write" /\ op.ret >= 0
      /\ StripOne(op.payload) \in LevelNames) =>
       /\ op.ret = Len(op.payload)
       /\ kernel_locked_down = LevelNamed(StripOne(op.payload))
  /\ (op.name = "lockdown_read" /\ prev.name = "lockdown_write"
      /\ StripOne(prev.payload) \in LevelNames) =>
       /\ Brackets(op.out, StripOne(prev.payload))
       /\ Count(op.out, "[") = 1
       /\ Count(op.out, "]") = 1

\* "confidentiality\n" was written at level none and the file then read
C9_Witness ==
  /\ op.name = "lockdown_read"
  /\ prev.name = "lockdown_write"
  /\ prev.pre = LOCKDOWN_NONE
  /\ prev.payload = StrConfidentiality \o <<NL>>
  /\ Brackets(op.out, StrConfidentiality)

\* the key press before the last call lifted the confidentiality level
LiftedFromConfidentiality ==
  /\ prev.name = "sysrq_handle_lockdown_lift"
  /\ prev.pre = LOCKDOWN_CONFIDENTIALITY_MAX

\* C10 as stated - Lift exception: the key pressed at level confidentiality
\* leaves the level at none, and the hook called right after returns 0 for
\* every reason of the enumeration.
C10_LiftEveryReason ==
  /\ (op.name = "sysrq_handle_lockdown_lift"
      /\ op.pre = LOCKDOWN_CONFIDENTIALITY_MAX) =>
       kernel_locked_down = LOCKDOWN_NONE
  /\ (op.name = "lockdown_is_locked_down" /\ LiftedFromConfidentiality) =>
       /\ kernel_locked_down = LOCKDOWN_NONE
       /\ op.what \in LOCKDOWN_NONE..LOCKDOWN_CONFIDENTIALITY_MAX =>
            op.ret = 0

\* C10 as amended - Lift exception: the key pressed at level confidentiality
\* leaves the level at none, and the hook called right after returns 0 for
\* every reason above LOCKDOWN_NONE and below the sentinel; for
\* LOCKDOWN_NONE and for the sentinel it returns -EPERM.
C10_LiftException ==
  /\ (op.name = "sysrq_handle_lockdown_lift"
      /\ op.pre = LOCKDOWN_CONFIDENTIALITY_MAX) =>
       /\ config.lift
       /\ kernel_locked_down = LOCKDOWN_NONE
  /\ (op.name = "lockdown_is_locked_down" /\ LiftedFromConfidentiality) =>
       /\ kernel_locked_down = LOCKDOWN_NONE
       /\ (op.what > LOCKDOWN_NONE
           /\ op.what < LOCKDOWN_CONFIDENTIALITY_MAX) =>
            op.ret = 0 /\ op.notices = <<>>
       /\ op.what \in {LOCKDOWN_NONE, LOCKDOWN_CONFIDENTIALITY_MAX} =>
            op.ret = -EPERM

\* the first reason of the table was checked right after the lift
C10_Witness ==
  /\ op.name = "lockdown_is_locked_down"
  /\ LiftedFromConfidentiality
  /\ op.what = LOCKDOWN_MODULE_SIGNATURE
  /\ op.ret = 0
  /\ kernel_locked_down = LOCKDOWN_NONE

\* C11 - Lift is the sole exception to monotonicity: a step that lowers the
\* level is a press of the SysRq key in a build that has the lift; no
\* write, early parameter, forced configuration, hook call or read lowers
\* it.
C11_OnlyLiftLowers ==
  [][kernel_locked_down' < kernel_locked_down =>
       /\ config.lift
       /\ op'.name = "sysrq_handle_lockdown_lift"
       /\ \A c \in Contexts : ctx'[c] = ctx[c]]_vars

\* the command line said lockdown=confidentiality
BootConfidentiality ==
  /\ cmdline.present
  /\ ~cmdline.null
  /\ cmdline.level = StrConfidentiality

\* the last call was a write, copied in, that names a labeled level
WroteLevelName ==
  /\ op.name = "lockdown_write"
  /\ op.copy = 0
  /\ StripOne(op.payload) \in LevelNames

\* C12 as stated - Bootstrap ordering: the early parameter is handled
\* before the securityfs file exists, and after lockdown=confidentiality
\* every later write of a level name gets -EPERM and leaves the level at
\* confidentiality.
C12_BootstrapOrderingAlways ==
  /\ lockdown_file => ParamPassed
  /\ (BootConfidentiality /\ WroteLevelName) =>
       /\ op.ret = -EPERM
       /\ kernel_locked_down = LOCKDOWN_CONFIDENTIALITY_MAX

\* C12 as amended - Bootstrap ordering: the early parameter is handled
\* before the securityfs file exists, and after lockdown=confidentiality
\* every later write of a level name made before the SysRq key has lifted
\* the lockdown gets -EPERM and leaves the level at confidentiality.
C12_BootstrapOrdering ==
  /\ lockdown_file => ParamPassed
  /\ (BootConfidentiality /\ WroteLevelName /\ ~lifted) =>
       /\ op.ret = -EPERM
       /\ op.pre = LOCKDOWN_CONFIDENTIALITY_MAX
       /\ kernel_locked_down = LOCKDOWN_CONFIDENTIALITY_MAX

\* "integrity" was written after lockdown=confidentiality and refused
C12_Witness ==
  /\ BootConfidentiality
  /\ op.name = "lockdown_write"
  /\ op.payload = StrIntegrity
  /\ ~lifted
  /\ op.ret = -EPERM
  /\ kernel_locked_down = LOCKDOWN_CONFIDENTIALITY_MAX

\* C13 - Bootstrap token recognition: the early parameter takes exactly
\* "integrity" and "confidentiality" and asks for a raise to the level the
\* word names; any other word, or none, gets -EINVAL and leaves the level
\* alone.
C13_TokenRecognition ==
  op.name = "lockdown_param" =>
    IF ~cmdline.null /\ op.payload \in {StrIntegrity, StrConfidentiality}
    THEN /\ op.ret = 0
         /\ Len(op.raises) = 1
         /\ op.raises[1].level = LevelNamed(op.payload)
         /\ op.raises[1].pre = op.pre
         /\ kernel_locked_down = Max(op.pre, LevelNamed(op.payload))
    ELSE /\ op.ret = -EINVAL
         /\ op.raises = <<>>
         /\ kernel_locked_down = op.pre

\* lockdown=none was on the command line and was refused
C13_Witness ==
  /\ op.name = "lockdown_param"
  /\ op.payload = StrNone
  /\ ~cmdline.null
  /\ op.ret = -EINVAL
  /\ kernel_locked_down = LOCKDOWN_NONE

\* the level the build forces, LOCKDOWN_NONE when it forces none
ForcedLevel ==
  IF config.force = "integrity" THEN LOCKDOWN_INTEGRITY_MAX
  ELSE IF config.force = "confidentiality" THEN LOCKDOWN_CONFIDENTIALITY_MAX
  ELSE LOCKDOWN_NONE

\* the command line names one of the two milestone levels
DirectiveNamesLevel ==
  /\ cmdline.present
  /\ ~cmdline.null
  /\ cmdline.level \in {StrIntegrity, StrConfidentiality}

\* C14 - Forced floor: with a forced level F and a directive naming D, the
\* level once both have been applied is max(F, D), whichever of the two
\* came first; the directive never leaves the level below F.
C14_ForcedFloor ==
  /\ (/\ config.force # "none"
      /\ DirectiveNamesLevel
      /\ {"lockdown_lsm_init", "lockdown_param"} \subseteq initcalls
      /\ op.name \in {"lockdown_lsm_init", "lockdown_param"}) =>
       kernel_locked_down = Max(ForcedLevel, LevelNamed(cmdline.level))
  /\ (op.name = "lockdown_param" /\ "lockdown_lsm_init" \in initcalls) =>
       kernel_locked_down >= ForcedLevel

\* lockdown=confidentiality was handled first, then integrity was forced
C14_Witness ==
  /\ ~config.early
  /\ config.force = "integrity"
  /\ BootConfidentiality
  /\ op.name = "lockdown_lsm_init"
  /\ "lockdown_param" \in initcalls
  /\ kernel_locked_down = LOCKDOWN_CONFIDENTIALITY_MAX

\* C15 - Conditional lift registration: lockdown_lift_sysrq registers the
\* key iff the level is above none when it runs; when it found the level at
\* none, no later write or key press lowers the level, and the key stays
\* unregistered.
C15_ConditionalRegistration ==
  [][/\ op'.name = "lockdown_lift_sysrq" =>
          (sysrq_registered' <=> kernel_locked_down # LOCKDOWN_NONE)
     /\ ("lockdown_lift_sysrq" \in initcalls /\ ~sysrq_registered) =>
          /\ ~sysrq_registered'
          /\ kernel_locked_down' >= kernel_locked_down
     /\ "lockdown_lift_sysrq" \notin initcalls' => ~sysrq_registered']_vars

\* the key was not registered at level none and a write then raised the
\* level
C15_Witness ==
  /\ config.lift
  /\ "lockdown_lift_sysrq" \in initcalls
  /\ ~sysrq_registered
  /\ op.name = "lockdown_write"
  /\ op.pre = LOCKDOWN_NONE
  /\ kernel_locked_down = LOCKDOWN_CONFIDENTIALITY_MAX

\* the number of calls of lock_kernel_down in r that returned 0
Raised(r) == Cardinality({i \in 1..Len(r) : r[i].ret = 0})

\* every raise that succeeded printed one notice, the others none
RaiseNotices ==
  op.name \in RaiseCalls =>
    /\ Len(op.notices) = Raised(op.raises)
    /\ \A i \in 1..Len(op.notices) :
         op.notices[i].msg = "Kernel is locked down"

\* C16 as stated - Notices: a raise that succeeds prints exactly one
\* notice, one that fails prints none; a hook call that returns -EPERM
\* prints exactly one notice.
C16_NoticesEveryDenial ==
  /\ RaiseNotices
  /\ (op.name = "lockdown_is_locked_down" /\ op.ret = -EPERM) =>
       Len(op.notices) = 1

\* C16 as amended - Notices: a raise that succeeds prints exactly one
\* notice, one that fails prints none; a hook call for a reason below the
\* sentinel that returns -EPERM prints exactly one notice; for a reason at
\* or beyond the sentinel it raises the warning and prints no notice.
C16_Notices ==
  /\ RaiseNotices
  /\ op.name = "lockdown_is_locked_down" =>
       /\ (op.ret = -EPERM /\ op.what < LOCKDOWN_CONFIDENTIALITY_MAX) =>
            /\ Len(op.notices) = 1
            /\ op.notices[1].msg = "is restricted"
            /\ op.notices[1].what = op.what
       /\ op.what >= LOCKDOWN_CONFIDENTIALITY_MAX =>
            op.warn /\ op.notices = <<>>
       /\ op.ret = 0 => op.notices = <<>>

\* a write that named the current level failed and printed nothing
C16_Witness ==
  /\ op.name = "lockdown_write"
  /\ op.payload = StrIntegrity
  /\ op.pre = LOCKDOWN_INTEGRITY_MAX
  /\ op.ret = -EPERM
  /\ op.notices = <<>>

\* C17 as stated - Lift trigger effect: every press of the registered key
\* leaves the level at none and prints the lifting notice.
C17_LiftAlwaysNotice ==
  op.name = "sysrq_handle_lockdown_lift" =>
    /\ kernel_locked_down = LOCKDOWN_NONE
    /\ Len(op.notices) = 1
    /\ op.notices[1].msg = "Lifting lockdown"

\* C17 as amended - Lift trigger effect: every press of the registered key
\* leaves the level at none; it prints the lifting notice iff the level was
\* above none when the key was pressed.
C17_LiftEffect ==
  op.name = "sysrq_handle_lockdown_lift" =>
    /\ sysrq_registered
    /\ kernel_locked_down = LOCKDOWN_NONE
    /\ op.pre # LOCKDOWN_NONE =>
         /\ Len(op.notices) = 1
         /\ op.notices[1].msg = "Lifting lockdown"
    /\ op.pre = LOCKDOWN_NONE => op.notices = <<>>

\* the key was pressed again right after it had lifted the lockdown
C17_Witness ==
  /\ op.name = "sysrq_handle_lockdown_lift"
  /\ prev.name = "sysrq_handle_lockdown_lift"
  /\ op.pre = LOCKDOWN_NONE
  /\ op.notices = <<>>
  /\ kernel_locked_down = LOCKDOWN_NONE

\* the calls that only look at the level
ReadCalls == {"lockdown_is_locked_down", "lockdown_read"}

\* C18 - Read paths are read-only: a call of the hook, for any reason, and
\* a read of the file leave the level and the rest of the state as they
\* found it; what they leave behind is their result, notice or warning.
C18_ReadOnly ==
  [][op'.name \in ReadCalls =>
       /\ kernel_locked_down' = kernel_locked_down
       /\ op'.pre = kernel_locked_down
       /\ UNCHANGED << config, cmdline, initcalls, lockdown_file,
                       sysrq_registered, lifted >>]_vars

\* the hook refused a reason at level integrity and printed its notice
C18_Witness ==
  /\ op.name = "lockdown_is_locked_down"
  /\ op.what = LOCKDOWN_DEV_MEM
  /\ op.ret = -EPERM
  /\ Len(op.notices) = 1
  /\ kernel_locked_down = LOCKDOWN_INTEGRITY_MAX

\* what a write leaves behind: a count of bytes or an error code
Kind(ret) == IF ret >= 0 THEN 0 ELSE ret

\* C19 - Trailing-newline stripping: at every level, a payload p that does
\* not end in a newline and p followed by one newline leave the same level
\* and the same kind of result (success, or the same error); a level name
\* followed by two newlines gets -EINVAL and leaves the level alone.
C19_NewlineStripping ==
  /\ \A p \in Payloads :
       (p = <<>> \/ p[Len(p)] # NL) =>
         LET a == lockdown_write_result(kernel_locked_down, p, Len(p), 0)
             b == lockdown_write_result(kernel_locked_down, p \o <<NL>>,
                                        Len(p) + 1, 0)
         IN  /\ a.lvl = b.lvl
             /\ Kind(a.ret) = Kind(b.ret)
             /\ a.ret >= 0 => a.ret = Len(p) /\ b.ret = Len(p) + 1
  /\ (op.name = "lockdown_write" /\ op.copy = 0
      /\ \E s \in LevelNames : op.payload = s \o <<NL, NL>>) =>
       op.ret = -EINVAL /\ kernel_locked_down = op.pre

\* "integrity\n" was written at level none and raised the level as
\* "integrity" does
C19_Witness ==
  /\ op.name = "lockdown_write"
  /\ op.payload = StrIntegrity \o <<NL>>
  /\ op.pre = LOCKDOWN_NONE
  /\ op.ret = Len(StrIntegrity) + 1
  /\ kernel_locked_down = LOCKDOWN_INTEGRITY_MAX
  /\ lockdown_write_result(op.pre, StrIntegrity, Len(StrIntegrity), 0).lvl
       = LOCKDOWN_INTEGRITY_MAX

\* C20 - Milestone-only state: the level is always LOCKDOWN_NONE,
\* LOCKDOWN_INTEGRITY_MAX or LOCKDOWN_CONFIDENTIALITY_MAX, never a reason
\* in between.
C20_MilestoneOnly ==
  /\ kernel_locked_down \in {LOCKDOWN_NONE, LOCKDOWN_INTEGRITY_MAX,
                              LOCKDOWN_CONFIDENTIALITY_MAX}
  /\ \A i \in 1..Len(op.raises) :
       op.raises[i].level \in {LOCKDOWN_NONE, LOCKDOWN_INTEGRITY_MAX,
                                LOCKDOWN_CONFIDENTIALITY_MAX}

\* the level is integrity after a write, a read and hook calls went by
C20_Witness ==
  /\ kernel_locked_down = LOCKDOWN_INTEGRITY_MAX
  /\ op.name = "lockdown_is_locked_down"
  /\ op.what = LOCKDOWN_DEBUGFS
  /\ prev.name = "none"
  /\ lockdown_file
====
